---- MODULE Spec2Model ----
(***************************************************************************)
(* Catalog service (Express): one JSON document per category under the    *)
(* mock directory, one file per upload under the uploads directory.        *)
(* Two variants of the server are modelled: src/index.js ("index") and     *)
(* src/unnamed/part_000 ("part_000").                                      *)
(*                                                                         *)
(* Node runs every route handler to completion (all file calls are the     *)
(* *Sync ones), so a handler is one action.  multer's upload.single() is   *)
(* an asynchronous middleware that runs before the POST handler, so a      *)
(* POST is two steps: PostReceive (multer stores the attachment) and       *)
(* PostHandler (the handler body), and other requests may run in between.  *)
(***************************************************************************)
EXTENDS Integers, Sequences, FiniteSets, TLC

VARIABLES variant,        \* which server file is running
          now,            \* Date.now(), in milliseconds
          mockDirExists,  \* the mock directory exists
          files,          \* category documents: path -> JSON text (absent path = no file)
          uploads,        \* names of the files in the uploads directory
          inflight,       \* POST requests between multer and their handler
          nextId,         \* the next identifier uuid() hands out
          resp,           \* the last response sent
          created,        \* history: bodies of the 201 responses, until a DELETE returns them
          deleted,        \* history: ids whose DELETE returned 200
          concurrent,     \* history: pairs of ids created by overlapping POSTs
          lazy            \* history: documents a GET created and no POST wrote since,
                          \*          with "first" or "later" for the last GET of it

vars == <<variant, now, mockDirExists, files, uploads, inflight, nextId, resp,
          created, deleted, concurrent, lazy>>

----------------------------------------------------------------------------
(* Bounds *)

MaxIds == 2        \* identifiers uuid() hands out (catalog and uploads)
MaxRaceIds == 3    \* identifiers uuid() hands out (overlapping POSTs)
MaxTime == 1       \* last value of the millisecond clock
MaxInFlight == 2   \* POST requests waiting for their handler

(* Inputs *)

Variants == {"index", "part_000"}
Tokens == {"face", "Face", "health"}            \* :category path segments
OriginalNames == {"a.png"}                      \* file.originalname of an upload
NoUpload == <<>>                                \* req.file is undefined
Slots == 1..MaxInFlight
Ids == 1..(IF MaxIds < MaxRaceIds THEN MaxRaceIds ELSE MaxIds)
None == [category |-> "-"]                      \* an empty in-flight slot

\* req.body of a POST: a field that is not in the DOMAIN is undefined
Bodies == { [name |-> "Serum", price |-> "250"],
            [name |-> "Serum", price |-> "abc", mililitres |-> "50"],
            [price |-> "250"],
            [name |-> "", price |-> "250"],
            [name |-> "Serum"],
            [name |-> "Serum", price |-> ""] }

----------------------------------------------------------------------------
(* JavaScript values and JSON *)

Num(n) == [kind |-> "number", val |-> n]
NaN == [kind |-> "NaN", val |-> 0]
Null == [kind |-> "null", val |-> 0]
Numerals == {0, 50, 250}

\* Number(s) for a string s
Number(s) ==
    IF s = "" THEN Num(0)
    ELSE IF \E n \in Numerals : ToString(n) = s
         THEN Num(CHOOSE n \in Numerals : ToString(n) = s)
         ELSE NaN

\* the JSON text of a number value: NaN (and null) are written as null
JSONnumber(v) == IF v.kind = "number" THEN ToString(v.val) ELSE "null"

\* the value of a JSON number-or-null text
ParseNumber(t) ==
    IF t = "null" THEN Null
    ELSE Num(CHOOSE n \in Numerals : ToString(n) = t)

\* String.prototype.toLowerCase on the category tokens
toLowerCase(s) == IF s = "Face" THEN "face" ELSE s

\* the fields of a product that hold numbers
NumberFields == {"price", "mililitres"}

\* JSON.stringify of one product object
StringifyProduct(p) ==
    [k \in DOMAIN p |-> IF k \in NumberFields THEN JSONnumber(p[k]) ELSE p[k]]

\* JSON.parse of one product object
ParseProduct(t) ==
    [k \in DOMAIN t |-> IF k \in NumberFields THEN ParseNumber(t[k]) ELSE t[k]]

\* JSON.stringify(data, null, 2) / res.json(data) of an array of products
JSONstringify(data) == [i \in 1..Len(data) |-> StringifyProduct(data[i])]

\* JSON.parse(text) of an array of products
JSONparse(text) == [i \in 1..Len(text) |-> ParseProduct(text[i])]

----------------------------------------------------------------------------
(* The file system *)

\* the mock directory, created at startup by index.js and on demand by part_000
MockDirAtStart(v) == IF v = "index" THEN {TRUE} ELSE BOOLEAN

\* the suffix getCategoryPath appends to the lowercased category
Suffix(v) == IF v = "index" THEN ".json" ELSE "Cosmetic.json"

\* (mutant) the path built from the category as given, not lowercased
getCategoryPathRaw(v, category) == "mock/" \o category \o Suffix(v)

\* getCategoryPath(category): the path of the category's document
getCategoryPath(v, category) == "mock/" \o toLowerCase(category) \o Suffix(v)

\* getCategoryPath's side effect: part_000 creates the mock directory
MkdirMock(v, exists) == exists \/ v = "part_000"

existsSync(fs, p) == p \in DOMAIN fs

readFileSync(fs, p) == fs[p]

writeFileSync(fs, p, text) ==
    [q \in DOMAIN fs \cup {p} |-> IF q = p THEN text ELSE fs[q]]

\* the text "[]" a GET writes into a new document
EmptyArrayText == <<>>

\* multer's filename callback: `${Date.now()}-${file.originalname}`
uniqueName(t, originalname) == <<ToString(t), "-", originalname>>

\* every name an upload can get
FileNames == {uniqueName(t, o) : t \in 0..MaxTime, o \in OriginalNames}

\* `/uploads/${req.file.filename}`, or "" without a file
imageUrl(file) == IF file = NoUpload THEN <<>> ELSE <<"/uploads/">> \o file

\* String.prototype.replace(pattern, ''): drops the first occurrence
replace(s, pattern) ==
    LET hits == {i \in 1..Len(s) : s[i] = pattern}
    IN  IF hits = {} THEN s
        ELSE LET k == CHOOSE i \in hits : \A j \in hits : i <= j
             IN  SubSeq(s, 1, k - 1) \o SubSeq(s, k + 1, Len(s))

----------------------------------------------------------------------------
(* Routing: the first registered route that matches handles the request *)

Routes(v) ==
    IF v = "index"
    THEN << [method |-> "GET",    pattern |-> "/",              handler |-> "root"],
            [method |-> "GET",    pattern |-> "/:category",     handler |-> "getCategory"],
            [method |-> "POST",   pattern |-> "/:category",     handler |-> "postCategory"],
            [method |-> "DELETE", pattern |-> "/:category/:id", handler |-> "deleteProduct"],
            [method |-> "GET",    pattern |-> "/uploads",       handler |-> "static"],
            [method |-> "GET",    pattern |-> "/health",        handler |-> "health"] >>
    ELSE << [method |-> "GET",    pattern |-> "/:category",     handler |-> "getCategory"],
            [method |-> "POST",   pattern |-> "/:category",     handler |-> "postCategory"],
            [method |-> "DELETE", pattern |-> "/:category/:id", handler |-> "deleteProduct"],
            [method |-> "GET",    pattern |-> "/uploads",       handler |-> "static"] >>

\* does the route take the request?  express.static passes on a missing file
Matches(route, method, path, ups) ==
    /\ route.method = method
    /\ CASE route.pattern = "/"              -> Len(path) = 0
         [] route.pattern = "/:category"     -> Len(path) = 1
         [] route.pattern = "/:category/:id" -> Len(path) = 2
         [] route.pattern = "/uploads"       ->
                Len(path) = 2 /\ path[1] = "uploads" /\ path[2] \in ups
         [] route.pattern = "/health"        -> Len(path) = 1 /\ path[1] = "health"

Dispatch(v, method, path, ups) ==
    LET rs == Routes(v)
        hits == {i \in 1..Len(rs) : Matches(rs[i], method, path, ups)}
    IN  IF hits = {} THEN "notFound"
        ELSE rs[CHOOSE i \in hits : \A j \in hits : i <= j].handler

----------------------------------------------------------------------------
(* The handlers, as functions of the file system and the request *)

Products(items) == [kind |-> "products", items |-> items]
Product(item) == [kind |-> "product", item |-> item]
Error(msg) == [kind |-> "error", error |-> msg]

\* (mutant) a GET that answers [] for a missing document without creating it
getCategoryNoCreate(v, fs, category) ==
    LET filePath == getCategoryPath(v, category)
    IN  IF ~existsSync(fs, filePath)
        THEN [files |-> fs, status |-> 200, body |-> Products(<<>>)]
        ELSE LET data == JSONparse(readFileSync(fs, filePath))
             IN  [files |-> fs, status |-> 200, body |-> Products(JSONstringify(data))]

\* GET /:category
getCategory(v, fs, category) ==
    LET filePath == getCategoryPath(v, category)
    IN  IF ~existsSync(fs, filePath)
        THEN [files |-> writeFileSync(fs, filePath, EmptyArrayText),
              status |-> 200, body |-> Products(<<>>)]
        ELSE LET data == JSONparse(readFileSync(fs, filePath))
             IN  [files |-> fs, status |-> 200, body |-> Products(JSONstringify(data))]

\* !req.body[field] : undefined and "" are falsy
Falsy(body, field) == IF field \in DOMAIN body THEN body[field] = "" ELSE TRUE

\* (mutant) only the name is required
MissingRequiredNameOnly(body) == Falsy(body, "name")

\* !req.body.name || !req.body.price
MissingRequired(body) == IF Falsy(body, "name") THEN TRUE ELSE Falsy(body, "price")

\* Number(req.body[field]): Number(undefined) is NaN
NumberOf(body, field) == IF field \in DOMAIN body THEN Number(body[field]) ELSE NaN

\* String(req.body[field]): String(undefined) is "undefined"
StringOf(body, field) == IF field \in DOMAIN body THEN body[field] ELSE "undefined"

\* req.body.mililitres ? Number(req.body.mililitres) : 0
Mililitres(body) ==
    IF Falsy(body, "mililitres") THEN Num(0) ELSE NumberOf(body, "mililitres")

\* the product object of a POST
MakeProduct(v, id, category, body, file) ==
    IF v = "index"
    THEN [id |-> id, name |-> StringOf(body, "name"), price |-> NumberOf(body, "price"),
          mililitres |-> Mililitres(body),
          category |-> toLowerCase(category), image |-> imageUrl(file)]
    ELSE [id |-> id, name |-> StringOf(body, "name"), price |-> NumberOf(body, "price"),
          category |-> toLowerCase(category), image |-> imageUrl(file)]

\* (mutant) a POST that starts from [] without reading the document
LoadDataEmpty(fs, filePath) == <<>>

\* the array a POST appends to: the parsed document, or [] without one
LoadData(fs, filePath) ==
    IF existsSync(fs, filePath) THEN JSONparse(readFileSync(fs, filePath)) ELSE <<>>

\* POST /:category, after multer
postCategory(v, fs, id, category, body, file) ==
    IF MissingRequired(body)
    THEN [files |-> fs, status |-> 400, body |-> Error("Name and price are required"),
          mkdir |-> FALSE]
    ELSE LET product == MakeProduct(v, id, category, body, file)
             filePath == getCategoryPath(v, category)
             data == Append(LoadData(fs, filePath), product)
         IN  [files |-> writeFileSync(fs, filePath, JSONstringify(data)),
              status |-> 201, body |-> Product(StringifyProduct(product)),
              mkdir |-> TRUE]

\* data.findIndex(product => product.id === id): 0-based, -1 when absent
findIndex(data, id) ==
    LET hits == {i \in 1..Len(data) : data[i].id = id}
    IN  IF hits = {} THEN -1
        ELSE (CHOOSE i \in hits : \A j \in hits : i <= j) - 1

\* (mutant) data.splice(start): everything from start on is removed
spliceToEnd(data, start) == SubSeq(data, 1, start)

\* what data.splice(start, 1) leaves in data (start is 0-based)
splice(data, start) == SubSeq(data, 1, start) \o SubSeq(data, start + 2, Len(data))

\* the uploads directory after DELETE's image clean-up (index.js only)
UnlinkImage(v, ups, deletedProduct) ==
    IF v = "index" /\ deletedProduct.image # <<>>
    THEN LET imageName == replace(deletedProduct.image, "/uploads/")
         IN  IF imageName \in ups THEN ups \ {imageName} ELSE ups
    ELSE ups

\* (mutant) a DELETE that creates the missing document, as GET does
deleteProductCreating(v, fs, ups, category, id) ==
    LET filePath == getCategoryPath(v, category)
    IN  IF ~existsSync(fs, filePath)
        THEN [files |-> writeFileSync(fs, filePath, EmptyArrayText), uploads |-> ups,
              status |-> 404, body |-> Error("Category not found")]
        ELSE LET data == JSONparse(readFileSync(fs, filePath))
                 productIndex == findIndex(data, id)
             IN  IF productIndex = -1
                 THEN [files |-> fs, uploads |-> ups, status |-> 404,
                       body |-> Error("Product not found")]
                 ELSE LET deletedProduct == data[productIndex + 1]
                          rest == splice(data, productIndex)
                      IN  [files |-> writeFileSync(fs, filePath, JSONstringify(rest)),
                           uploads |-> UnlinkImage(v, ups, deletedProduct),
                           status |-> 200,
                           body |-> Product(StringifyProduct(deletedProduct))]

\* DELETE /:category/:id
deleteProduct(v, fs, ups, category, id) ==
    LET filePath == getCategoryPath(v, category)
    IN  IF ~existsSync(fs, filePath)
        THEN [files |-> fs, uploads |-> ups, status |-> 404,
              body |-> Error("Category not found")]
        ELSE LET data == JSONparse(readFileSync(fs, filePath))
                 productIndex == findIndex(data, id)
             IN  IF productIndex = -1
                 THEN [files |-> fs, uploads |-> ups, status |-> 404,
                       body |-> Error("Product not found")]
                 ELSE LET deletedProduct == data[productIndex + 1]
                          rest == splice(data, productIndex)
                      IN  [files |-> writeFileSync(fs, filePath, JSONstringify(rest)),
                           uploads |-> UnlinkImage(v, ups, deletedProduct),
                           status |-> 200,
                           body |-> Product(StringifyProduct(deletedProduct))]

----------------------------------------------------------------------------
(* The state machine *)

Response(method, path, status, body, file) ==
    [method |-> method, path |-> path, status |-> status, body |-> body, file |-> file]

Init ==
    /\ variant \in Variants
    /\ now = 0
    /\ mockDirExists \in MockDirAtStart(variant)
    /\ files = <<>>
    /\ uploads = {}
    /\ inflight = [s \in Slots |-> None]
    /\ nextId = 1
    /\ resp = Response("-", <<>>, 0, Error("-"), NoUpload)
    /\ created = {}
    /\ deleted = {}
    /\ concurrent = {}
    /\ lazy = <<>>

\* time passes
Tick ==
    /\ now < MaxTime
    /\ now' = now + 1
    /\ UNCHANGED <<variant, mockDirExists, files, uploads, inflight, nextId, resp,
                   created, deleted, concurrent, lazy>>

\* identifiers the requests in flight will still take
Reserved ==
    Cardinality({s \in Slots : IF inflight[s] = None THEN FALSE
                               ELSE ~MissingRequired(inflight[s].body)})

\* the first free slot among slots, 0 when all are taken
FreeSlot(slots) ==
    LET free == {s \in slots : inflight[s] = None}
    IN  IF free = {} THEN 0 ELSE CHOOSE s \in free : \A t \in free : s <= t

\* POST /:category arrives: upload.single('image') stores the attachment
PostReceive(slots, limit, category, body, file) ==
    /\ Dispatch(variant, "POST", <<category>>, uploads) = "postCategory"
    /\ FreeSlot(slots) # 0
    /\ IF MissingRequired(body) THEN TRUE ELSE nextId + Reserved <= limit
    /\ inflight' = [inflight EXCEPT ![FreeSlot(slots)] =
            [category |-> category, body |-> body, file |-> file, peers |-> {}]]
    /\ uploads' = IF file = NoUpload THEN uploads ELSE uploads \cup {file}
    /\ UNCHANGED <<variant, now, mockDirExists, files, nextId, resp,
                   created, deleted, concurrent, lazy>>

\* the POST handler of the request in slot s runs
PostHandler(s) ==
    /\ inflight[s] # None
    /\ LET q == inflight[s]
           r == postCategory(variant, files, nextId, q.category, q.body, q.file)
           filePath == getCategoryPath(variant, q.category)
           ok == r.status = 201
       IN  /\ files' = r.files
           /\ mockDirExists' = IF r.mkdir THEN MkdirMock(variant, mockDirExists)
                                          ELSE mockDirExists
           /\ nextId' = IF ok THEN nextId + 1 ELSE nextId
           /\ resp' = Response("POST", <<q.category>>, r.status, r.body, q.file)
           /\ inflight' = [t \in Slots |->
                  IF t = s THEN None
                  ELSE IF inflight[t] = None THEN None
                  ELSE IF ok /\ getCategoryPath(variant, inflight[t].category) = filePath
                       THEN [inflight[t] EXCEPT !.peers = @ \cup {nextId}]
                       ELSE inflight[t]]
           /\ created' = IF ok THEN created \cup {r.body.item} ELSE created
           /\ concurrent' = IF ok THEN concurrent \cup {{j, nextId} : j \in q.peers}
                                  ELSE concurrent
           /\ lazy' = IF ok THEN [p \in DOMAIN lazy \ {filePath} |-> lazy[p]] ELSE lazy
    /\ UNCHANGED <<variant, now, uploads, deleted>>

\* GET path
HandleGet(path) ==
    LET handler == Dispatch(variant, "GET", path, uploads)
    IN  /\ CASE handler = "getCategory" ->
                  LET r == getCategory(variant, files, path[1])
                      filePath == getCategoryPath(variant, path[1])
                  IN  /\ files' = r.files
                      /\ mockDirExists' = MkdirMock(variant, mockDirExists)
                      /\ resp' = Response("GET", path, r.status, r.body, NoUpload)
                      /\ lazy' = IF ~existsSync(files, filePath)
                                 THEN [p \in DOMAIN lazy \cup {filePath} |->
                                          IF p = filePath THEN "first" ELSE lazy[p]]
                                 ELSE [p \in DOMAIN lazy |->
                                          IF p = filePath THEN "later" ELSE lazy[p]]
             [] handler = "root" ->
                  /\ resp' = Response("GET", path, 200, [kind |-> "metadata"], NoUpload)
                  /\ UNCHANGED <<files, mockDirExists, lazy>>
             [] handler = "health" ->
                  /\ resp' = Response("GET", path, 200, [kind |-> "health"], NoUpload)
                  /\ UNCHANGED <<files, mockDirExists, lazy>>
             [] handler = "static" ->
                  /\ resp' = Response("GET", path, 200, [kind |-> "file"], NoUpload)
                  /\ UNCHANGED <<files, mockDirExists, lazy>>
             [] OTHER ->
                  /\ resp' = Response("GET", path, 404, Error("Cannot GET"), NoUpload)
                  /\ UNCHANGED <<files, mockDirExists, lazy>>
        /\ UNCHANGED <<variant, now, uploads, inflight, nextId, created, deleted, concurrent>>

\* DELETE /:category/:id
HandleDelete(category, id) ==
    /\ Dispatch(variant, "DELETE", <<category, id>>, uploads) = "deleteProduct"
    /\ LET r == deleteProduct(variant, files, uploads, category, id)
       IN  /\ files' = r.files
           /\ uploads' = r.uploads
           /\ mockDirExists' = MkdirMock(variant, mockDirExists)
           /\ resp' = Response("DELETE", <<category, id>>, r.status, r.body, NoUpload)
           /\ deleted' = IF r.status = 200 THEN deleted \cup {id} ELSE deleted
           /\ created' = IF r.status = 200 THEN created \ {r.body.item} ELSE created
    /\ UNCHANGED <<variant, now, inflight, nextId, concurrent, lazy>>

\* the identifiers a client asks to delete: the ones handed out and one that is not
AskedIds == {id \in Ids : id <= nextId}

\* the attachments a POST can carry at this moment
Attachments == {NoUpload} \cup {uniqueName(now, o) : o \in OriginalNames}

(* The catalog: requests one at a time, every kind of body, no attachment *)
PostTokens == {"Face", "health"}

Next ==
    \/ \E c \in PostTokens, b \in Bodies : PostReceive({1}, MaxIds, c, b, NoUpload)
    \/ \E s \in Slots : PostHandler(s)
    \/ \E t \in Tokens : HandleGet(<<t>>)
    \/ \E c \in Tokens, id \in AskedIds : HandleDelete(c, id)

Spec == Init /\ [][Next]_vars

(* The uploads directory: the clock, attachments, the static route *)
UploadBodies == {[name |-> "Serum", price |-> "250"], [name |-> "Serum"]}
UploadTokens == {"face", "health"}

NextUploads ==
    \/ Tick
    \/ \E b \in UploadBodies, f \in Attachments : PostReceive({1}, MaxIds, "face", b, f)
    \/ \E s \in Slots : PostHandler(s)
    \/ \E path \in {<<>>, <<"face">>} \cup {<<"uploads", f>> : f \in FileNames} : HandleGet(path)
    \/ \E c \in UploadTokens, id \in AskedIds : HandleDelete(c, id)

SpecUploads == Init /\ [][NextUploads]_vars

(* Overlapping POSTs: several requests between multer and their handler *)
RaceTokens == {"face", "Face"}
RaceBodies == {[name |-> "Serum", price |-> "250"]}

NextRace ==
    \/ \E c \in RaceTokens, b \in RaceBodies : PostReceive(Slots, MaxRaceIds, c, b, NoUpload)
    \/ \E s \in Slots : PostHandler(s)
    \/ \E c \in RaceTokens : HandleGet(<<c>>)
    \/ \E c \in RaceTokens, id \in AskedIds : HandleDelete(c, id)

SpecRace == Init /\ [][NextRace]_vars

----------------------------------------------------------------------------
(* Properties *)

\* where the document of a category token is kept
DocPath(category) == "mock/" \o toLowerCase(category) \o Suffix(variant)

\* the document of a category token in fs, as the array of its records
\* ([] without a file)
DocumentIn(fs, category) ==
    IF DocPath(category) \in DOMAIN fs THEN fs[DocPath(category)] ELSE <<>>

Document(category) == DocumentIn(files, category)

\* the document of a category token exists
HasDocument(category) == DocPath(category) \in DOMAIN files

\* the five fields every variant gives a record
FiveFields(r) == [id |-> r.id, name |-> r.name, price |-> r.price,
                  category |-> r.category, image |-> r.image]

\* the last response is the product array of a category
IsCategoryRead == resp.method = "GET" /\ resp.body.kind = "products"

\* the records of all documents of fs
AllRecordsIn(fs) == UNION {{fs[p][i] : i \in 1..Len(fs[p])} : p \in DOMAIN fs}

AllRecords == AllRecordsIn(files)

\* the file in the uploads directory that an image reference names
StoredName(image) == SubSeq(image, 2, Len(image))

\* C1: a GET of a category returns 200 with an array that holds, field for field,
\* every record a POST to that category returned with 201 and no DELETE removed,
\* and holds no record with the id of one a DELETE removed.
C1_RoundTrip ==
    IsCategoryRead =>
        /\ resp.status = 200
        /\ \A r \in created :
              r.category = toLowerCase(resp.path[1]) =>
                 \E i \in 1..Len(resp.body.items) :
                    FiveFields(resp.body.items[i]) = FiveFields(r)
        /\ \A id \in deleted :
              \A i \in 1..Len(resp.body.items) : resp.body.items[i].id # id

\* a GET /face that returns the record posted to /Face with a price that is not a
\* number, after another record of the category was deleted
C1_Witness ==
    /\ IsCategoryRead
    /\ resp.path = <<"face">>
    /\ deleted # {}
    /\ \E r \in created :
          /\ r.category = "face" /\ r.price = "null"
          /\ \E i \in 1..Len(resp.body.items) : resp.body.items[i] = r

\* C2: the GET of a category without a document returns 200 and [] and leaves an
\* existing document holding the empty sequence, and so does every later GET of
\* the category as long as no POST wrote to it.
C2_LazyCreate ==
    \A t \in Tokens :
        (/\ resp.method = "GET"
         /\ resp.path = <<t>>
         /\ DocPath(t) \in DOMAIN lazy) =>
            /\ resp.status = 200
            /\ resp.body = Products(<<>>)
            /\ HasDocument(t)
            /\ Document(t) = <<>>

\* a later GET of a document that a first GET created
C2_Witness ==
    /\ resp.method = "GET"
    /\ resp.path = <<"face">>
    /\ DocPath("face") \in DOMAIN lazy
    /\ lazy[DocPath("face")] = "later"
    /\ resp.body = Products(<<>>)

\* a required field is absent or empty
AbsentOrEmpty(body) ==
    \E f \in {"name", "price"} : IF f \in DOMAIN body THEN body[f] = "" ELSE TRUE

\* C3: the handler of a POST whose name or price is absent or empty answers 400
\* and leaves every category document as it was.
C3_Rejected ==
    [][\A s \in Slots :
          (IF inflight[s] = None THEN FALSE
           ELSE inflight'[s] = None /\ AbsentOrEmpty(inflight[s].body)) =>
             /\ resp'.method = "POST"
             /\ resp'.status = 400
             /\ files' = files]_vars

\* a 400 while one category has a record and another has no document
C3_Witness ==
    /\ resp.method = "POST"
    /\ resp.status = 400
    /\ resp.path = <<"health">>
    /\ Len(Document("face")) > 0
    /\ ~HasDocument("health")

\* the first position of id in a document, 0 when it is not there
FirstPosition(doc, id) ==
    IF \E i \in 1..Len(doc) : doc[i].id = id
    THEN CHOOSE i \in 1..Len(doc) : doc[i].id = id /\ \A j \in 1..(i - 1) : doc[j].id # id
    ELSE 0

\* doc without its k-th record
Without(doc, k) == [i \in 1..(Len(doc) - 1) |-> IF i < k THEN doc[i] ELSE doc[i + 1]]

\* C4: a DELETE of an id the document holds returns 200 with the first record of
\* that id and leaves the document without exactly that record, the others in
\* their order; the same DELETE again returns 404 and changes no document.
C4_DeleteOne ==
    [][resp'.method = "DELETE" =>
          LET c == resp'.path[1]
              id == resp'.path[2]
              k == FirstPosition(Document(c), id)
          IN  /\ k # 0 =>
                    /\ resp'.status = 200
                    /\ resp'.body = Product(Document(c)[k])
                    /\ DocumentIn(files', c) = Without(Document(c), k)
              /\ (resp.method = "DELETE" /\ resp.status = 200 /\ resp.path = resp'.path
                    /\ resp' # resp) =>
                    /\ resp'.status = 404
                    /\ files' = files]_vars

\* the repeated DELETE of the middle record of three: 404, the other two in order
C4_Witness ==
    /\ resp.method = "DELETE"
    /\ resp.status = 404
    /\ resp.path[2] = 2
    /\ 2 \in deleted
    /\ Len(Document("face")) = 2
    /\ Document("face")[1].id = 1
    /\ Document("face")[2].id = 3

\* C6: a DELETE for a category without a document returns 404, and no document
\* is created, changed or removed and no attachment is removed.
C6_NoCategory ==
    [][(/\ resp'.method = "DELETE"
        /\ inflight' = inflight
        /\ now' = now
        /\ ~HasDocument(resp'.path[1])) =>
            /\ resp'.status = 404
            /\ resp'.body = Error("Category not found")
            /\ files' = files
            /\ uploads' = uploads]_vars

\* a 404 for a category without a document, while another category has a record
\* with an attachment in the uploads directory
C6_Witness ==
    /\ resp.method = "DELETE"
    /\ resp.status = 404
    /\ ~HasDocument(resp.path[1])
    /\ \E r \in AllRecords : r.image # <<>> /\ StoredName(r.image) \in uploads

\* C7 (as claimed): GET /health answers with the health payload.
C7_Health ==
    (variant = "index" /\ resp.method = "GET" /\ resp.path = <<"health">>) =>
        /\ resp.body.kind = "health"
        /\ (HasDocument("health") => \E r \in created : r.category = "health")

\* the record of id is in some document
Stored(id) == \E r \in AllRecords : r.id = id

C5_AttachmentRemoved ==
    [][(/\ resp'.method = "DELETE"
        /\ resp'.status = 200
        /\ files' # files
        /\ resp'.body.item.image # <<>>
        /\ StoredName(resp'.body.item.image) \in uploads) =>
            StoredName(resp'.body.item.image) \notin uploads']_vars

\* C9 (as claimed): when the handler of a POST that carried an attachment ends
\* without a 201, the attachment is still in the uploads directory and no record
\* of any document references it.
C9_Orphan ==
    [][\A s \in Slots :
          (IF inflight[s] = None THEN FALSE
           ELSE /\ inflight'[s] = None
                /\ inflight[s].file # NoUpload
                /\ resp'.status # 201) =>
             /\ inflight[s].file \in uploads'
             /\ \A r \in AllRecordsIn(files') :
                   r.image = <<>> \/ StoredName(r.image) # inflight[s].file]_vars

\* C10 (as claimed): in index.js every record with an image references a file that
\* is in the uploads directory.
C10_ImagesExist ==
    variant = "index" =>
        \A r \in AllRecords : r.image # <<>> => StoredName(r.image) \in uploads

====
